---- MODULE Spec2Model ----
(***************************************************************************)
(* A model of the dulayni client: the DulayniClient authentication state   *)
(* and query protocol (src/src/dulayni/client.py), the persisted session   *)
(* (src/src/dulayni/cli.py, src/src/dulayni/auth/session.py), and the run  *)
(* command with its filesystem-helper lifecycle (src/src/dulayni/cli.py,   *)
(* src/src/dulayni/mcp/start.py).                                          *)
(***************************************************************************)
EXTENDS Integers, Sequences, FiniteSets, TLC

VARIABLES
    client,       \* the DulayniClient instance: its authentication fields
    last,         \* the last client call: operation, outcome, HTTP requests it sent
    sessionFile,  \* content of ~/.dulayni/session.json
    session0,     \* content of the session file when the invocation started
    now,          \* time.time(), in seconds
    cfg,          \* the merged configuration of the run invocation
    pc,           \* position of the run command
    proc,         \* the handle start_server returned to run
    helper,       \* the helper process this invocation spawned
    foreign,      \* a helper owned by someone else answers /health on the port
    net,          \* HTTP requests the run invocation has sent, in order
    stops,        \* number of stop_server calls made by the invocation
    terminates,   \* number of proc.terminate() calls made by the invocation
    exit,         \* how the protected phase of run was left
    queries,      \* number of interactive inputs read so far
    input,        \* the arguments drawn for a function under check
    output,       \* what the function under check returned or raised
    spawned,      \* the helper processes start_server has spawned, in order
    elapsed,      \* tenths of a second since wait_for_server started
    returned      \* what the calls of start_server returned, in order

\* The state used only by the specifications of single functions and of
\* start_server.
ext == <<input, output, spawned, elapsed, returned>>

vars == <<client, last, sessionFile, session0, now, cfg, pc, proc, helper,
          foreign, net, stops, terminates, exit, queries, ext>>

runVars == <<session0, cfg, pc, proc, helper, foreign, net, stops, terminates,
             exit, queries>>

----------------------------------------------------------------------------
(* Values.  Python's None is the string "None"; the empty string is "".    *)

None == "None"

Phones == {"P", "Q"}

Keys == {"sk-1"}

Tokens == {"t1", "t2"}

SessionIds == {"s1"}

Codes == {"1234"}

\* Python truthiness of an optional string: None and "" are falsy.
Truthy(x) == x # None /\ x # ""

----------------------------------------------------------------------------
(* Bounds of the model.                                                    *)

\* The clock advances at most MaxTicks times, by TickSeconds each.
MaxTicks == 2

\* The interactive loop reads at most MaxInputs lines.
MaxInputs == 2

\* Seconds per clock step of the model (half of the session lifetime).
TickSeconds == 43200

\* cli.py: time.time() + 24 * 60 * 60
SessionLifetime == 86400

----------------------------------------------------------------------------
(* Exceptions of src/src/dulayni/exceptions.py, and results of calls.      *)

AuthenticationError == "DulayniAuthenticationError"

ConnectionError == "DulayniConnectionError"

TimeoutError == "DulayniTimeoutError"

ClientError == "DulayniClientError"

\* All four are DulayniClientError or subclasses of it.
ClientErrors == {AuthenticationError, ConnectionError, TimeoutError, ClientError}

\* The result of one client call: the client afterwards, "return" or the
\* exception raised, the value returned, and the HTTP requests sent.
Result(c, outcome, value, requests) ==
    [client |-> c, outcome |-> outcome, value |-> value, requests |-> requests]

----------------------------------------------------------------------------
(* DulayniClient.                                                          *)

\* __init__: parameters stored as given, authentication state cleared.
DulayniClient(phone, key) ==
    [phone_number |-> phone,
     dulayni_api_key |-> key,
     is_authenticated |-> FALSE,
     auth_token |-> None,
     verification_session_id |-> None]

set_auth_token(c, token) ==
    [c EXCEPT !.auth_token = token, !.is_authenticated = Truthy(token)]

set_dulayni_api_key(c, key) ==
    [c EXCEPT !.dulayni_api_key = key,
              !.is_authenticated = IF Truthy(key) THEN TRUE ELSE @]

set_phone_number(c, phone) ==
    [c EXCEPT !.phone_number = phone,
              !.is_authenticated = FALSE,
              !.auth_token = None,
              !.verification_session_id = None]

\* What the remote service can answer to POST /auth.
AuthResponses ==
    {[kind |-> "ok", session_id |-> s] : s \in SessionIds \cup {None}}
    \cup {[kind |-> k, session_id |-> None] :
             k \in {"http_error", "connection_error", "timeout"}}

\* What the remote service can answer to POST /verify.
VerifyResponses ==
    {[kind |-> "ok", auth_token |-> t] : t \in Tokens \cup {None}}
    \cup {[kind |-> k, auth_token |-> None] :
             k \in {"http_error", "connection_error", "timeout"}}

\* A translation that reports every failure as a connection failure.
AuthFailureAsConnection(kind) == ConnectionError

\* requests.post to /auth or /verify failed: ConnectionError is translated
\* to DulayniConnectionError, every other RequestException (an HTTP error
\* status from raise_for_status, a timeout) to DulayniAuthenticationError.
AuthFailure(kind) ==
    IF kind = "connection_error" THEN ConnectionError ELSE AuthenticationError

request_verification_code(c, phone_number, resp) ==
    IF Truthy(c.dulayni_api_key) THEN
        Result(c, "return", [status |-> "skipped", session_id |-> ""], <<>>)
    ELSE
        LET phone == IF Truthy(phone_number) THEN phone_number ELSE c.phone_number
            req == [url |-> "/auth", phone_number |-> phone]
        IN  IF ~Truthy(phone) THEN
                Result(c, AuthenticationError, None, <<>>)
            ELSE IF resp.kind = "ok" THEN
                Result([c EXCEPT !.verification_session_id = resp.session_id,
                                 !.phone_number = IF Truthy(phone_number)
                                                  THEN phone_number ELSE @],
                       "return",
                       [status |-> "ok", session_id |-> resp.session_id],
                       <<req>>)
            ELSE
                Result(c, AuthFailure(resp.kind), None, <<req>>)

\* verify_code without the static-key shortcut.
verify_code_no_skip(c, verification_code, session_id, resp) ==
    LET session == IF Truthy(session_id) THEN session_id
                   ELSE c.verification_session_id
        req == [url |-> "/verify", session_id |-> session,
                verification_code |-> verification_code]
    IN  IF ~Truthy(session) THEN
            Result(c, AuthenticationError, None, <<>>)
        ELSE IF resp.kind = "ok" THEN
            Result([c EXCEPT !.auth_token = resp.auth_token,
                             !.is_authenticated = Truthy(resp.auth_token)],
                   "return",
                   [status |-> "ok", auth_token |-> resp.auth_token],
                   <<req>>)
        ELSE
            Result(c, AuthFailure(resp.kind), None, <<req>>)

verify_code(c, verification_code, session_id, resp) ==
    IF Truthy(c.dulayni_api_key) THEN
        Result(c, "return", [status |-> "skipped", auth_token |-> None], <<>>)
    ELSE
        LET session == IF Truthy(session_id) THEN session_id
                       ELSE c.verification_session_id
            req == [url |-> "/verify", session_id |-> session,
                    verification_code |-> verification_code]
        IN  IF ~Truthy(session) THEN
                Result(c, AuthenticationError, None, <<>>)
            ELSE IF resp.kind = "ok" THEN
                Result([c EXCEPT !.auth_token = resp.auth_token,
                                 !.is_authenticated = Truthy(resp.auth_token)],
                       "return",
                       [status |-> "ok", auth_token |-> resp.auth_token],
                       <<req>>)
            ELSE
                Result(c, AuthFailure(resp.kind), None, <<req>>)

\* authenticate(verification_code_callback): callback is None or a code the
\* callback returns.
authenticate(c, callback, authResp, verifyResp) ==
    IF Truthy(c.dulayni_api_key) THEN
        Result([c EXCEPT !.is_authenticated = TRUE], "return", TRUE, <<>>)
    ELSE IF ~Truthy(c.phone_number) THEN
        Result(c, AuthenticationError, None, <<>>)
    ELSE
        LET r1 == request_verification_code(c, None, authResp)
        IN  IF r1.outcome # "return" THEN r1
            ELSE IF callback = None THEN
                Result(r1.client, AuthenticationError, None, r1.requests)
            ELSE
                LET r2 == verify_code(r1.client, callback, None, verifyResp)
                IN  IF r2.outcome # "return"
                    THEN Result(r2.client, r2.outcome, None,
                                r1.requests \o r2.requests)
                    ELSE Result(r2.client, "return", r2.client.is_authenticated,
                                r1.requests \o r2.requests)

\* The ways POST /run_agent can fail other than by a 401 answer: the
\* connection is refused or lost, it is not established within the request
\* timeout (requests raises ConnectTimeout, which is both a ConnectionError
\* and a Timeout), the answer does not arrive within the timeout, or the
\* answer has a 4xx/5xx status.
QueryFailures == {"connection_error", "connect_timeout", "timeout", "http_error"}

\* What the remote service can answer to POST /run_agent.
QueryResponses ==
    {[kind |-> k] : k \in {"ok", "ok_nonobject", "401"} \cup QueryFailures}

QueryFailureAllGeneric(kind) == ClientError

\* The except clauses of query, query_json and query_stream, in their
\* order: requests' ConnectionError first, then Timeout, then any other
\* RequestException.
QueryFailure(kind) ==
    IF kind \in {"connection_error", "connect_timeout"} THEN ConnectionError
    ELSE IF kind = "timeout" THEN TimeoutError
    ELSE ClientError

\* The credentials a query request carries: the Authorization header when
\* auth_token is truthy, the dulayni_api_key payload field when not None.
QueryRequest(c, url) ==
    [url |-> url,
     bearer |-> IF Truthy(c.auth_token) THEN c.auth_token ELSE None,
     dulayni_api_key |-> c.dulayni_api_key]

\* run_agent with a 401 answer that resets the client as set_phone_number does.
run_agent_resets_all(c, full, resp) ==
    IF ~c.is_authenticated /\ ~Truthy(c.dulayni_api_key) THEN
        Result(c, AuthenticationError, None, <<>>)
    ELSE
        LET req == QueryRequest(c, "/run_agent")
        IN  CASE resp.kind = "401" ->
                    Result(set_phone_number(c, c.phone_number),
                           AuthenticationError, None, <<req>>)
              [] resp.kind \in QueryFailures ->
                    Result(c, QueryFailure(resp.kind), None, <<req>>)
              [] resp.kind = "ok_nonobject" ->
                    IF full THEN Result(c, "return", "body", <<req>>)
                    ELSE Result(c, "AttributeError", None, <<req>>)
              [] OTHER ->
                    Result(c, "return", IF full THEN "body" ELSE "response",
                           <<req>>)

\* run_agent with a 401 answer that leaves the authentication state alone.
run_agent_keeps_state(c, full, resp) ==
    IF ~c.is_authenticated /\ ~Truthy(c.dulayni_api_key) THEN
        Result(c, AuthenticationError, None, <<>>)
    ELSE
        LET req == QueryRequest(c, "/run_agent")
        IN  CASE resp.kind = "401" ->
                    Result(c, AuthenticationError, None, <<req>>)
              [] resp.kind \in QueryFailures ->
                    Result(c, QueryFailure(resp.kind), None, <<req>>)
              [] resp.kind = "ok_nonobject" ->
                    IF full THEN Result(c, "return", "body", <<req>>)
                    ELSE Result(c, "AttributeError", None, <<req>>)
              [] OTHER ->
                    Result(c, "return", IF full THEN "body" ELSE "response",
                           <<req>>)

\* The shared body of query() and query_json(); full is TRUE for query_json.
run_agent(c, full, resp) ==
    IF ~c.is_authenticated /\ ~Truthy(c.dulayni_api_key) THEN
        Result(c, AuthenticationError, None, <<>>)
    ELSE
        LET req == QueryRequest(c, "/run_agent")
        IN  CASE resp.kind = "401" ->
                    Result([c EXCEPT !.is_authenticated = FALSE,
                                     !.auth_token = None],
                           AuthenticationError, None, <<req>>)
              [] resp.kind \in QueryFailures ->
                    Result(c, QueryFailure(resp.kind), None, <<req>>)
              [] resp.kind = "ok_nonobject" ->
                    IF full THEN Result(c, "return", "body", <<req>>)
                    ELSE Result(c, "AttributeError", None, <<req>>)
              [] OTHER ->
                    Result(c, "return", IF full THEN "body" ELSE "response",
                           <<req>>)

query(c, resp) == run_agent(c, FALSE, resp)

query_json(c, resp) == run_agent(c, TRUE, resp)

\* ---------------------------------------------------------------------
\* query_stream and the tool display
\* ---------------------------------------------------------------------

\* The longest event stream the service sends.
MaxEvents == 3

\* The events of a stream that decode to a JSON object: messages, the start
\* and the end of a tool call, a todo list, and a type query_stream ignores.
WellFormedEvents ==
    {[type |-> "message", id |-> m] : m \in {"m1", "m2"}}
        \cup {[type |-> t, id |-> i] : t \in {"tool_start", "tool_end"},
                                      i \in {"a", "b"}}
        \cup {[type |-> "todos_update", id |-> "todos"],
              [type |-> "ping", id |-> "x"]}

\* What else the response body can hold: an event whose data is not JSON, and
\* the point where the connection breaks while the body is read.
Events ==
    WellFormedEvents \cup {[type |-> "undecodable", id |-> "x"],
                           [type |-> "broken", id |-> "x"]}

StreamsUpTo(n) == UNION {[1..k -> Events] : k \in 0..n}

\* ToolExecutionDisplay: the tool calls in progress and what was rendered.
ToolExecutionDisplay == [active_tools |-> {}, shown |-> <<>>]

start_tool(d, tool_call_id) ==
    [active_tools |-> d.active_tools \cup {tool_call_id},
     shown |-> Append(d.shown, <<"start", tool_call_id>>)]

end_tool_unguarded(d, tool_call_id) ==
    [active_tools |-> d.active_tools \ {tool_call_id},
     shown |-> Append(d.shown, <<"end", tool_call_id>>)]

\* end_tool acts only on a tool call that is in progress.
end_tool(d, tool_call_id) ==
    IF tool_call_id \in d.active_tools
    THEN [active_tools |-> d.active_tools \ {tool_call_id},
          shown |-> Append(d.shown, <<"end", tool_call_id>>)]
    ELSE d

update_todos(d, content) ==
    [d EXCEPT !.shown = Append(@, <<"todos", content>>)]

\* What a consumer of query_stream has seen: the events yielded to it, the
\* events handed to the display, and the display.
NoStream == [yielded |-> <<>>, calls |-> <<>>, display |-> ToolExecutionDisplay]

RECURSIVE for_event(_, _)
\* The loop over the events of the response, for a caller that iterates to
\* the end. json.loads of an undecodable event raises json.JSONDecodeError,
\* which no except clause of query_stream names; a broken connection raises
\* a requests exception that the last clause turns into DulayniClientError.
for_event(events, st) ==
    IF events = <<>> THEN [outcome |-> "return", seen |-> st]
    ELSE LET data == Head(events)
             rest == Tail(events)
         IN  CASE data.type = "undecodable" ->
                      [outcome |-> "JSONDecodeError", seen |-> st]
               [] data.type = "broken" ->
                      [outcome |-> ClientError, seen |-> st]
               [] data.type = "tool_start" ->
                      for_event(rest,
                          [st EXCEPT !.calls = Append(@, data),
                                     !.display = start_tool(@, data.id)])
               [] data.type = "tool_end" ->
                      for_event(rest,
                          [st EXCEPT !.calls = Append(@, data),
                                     !.display = end_tool(@, data.id)])
               [] data.type = "todos_update" ->
                      for_event(rest,
                          [st EXCEPT !.calls = Append(@, data),
                                     !.display = update_todos(@, data.id)])
               [] data.type = "message" ->
                      for_event(rest, [st EXCEPT !.yielded = Append(@, data)])
               [] OTHER -> for_event(rest, st)

query_stream_retries(c, resp, events) ==
    IF ~c.is_authenticated /\ ~Truthy(c.dulayni_api_key) THEN
        Result(c, AuthenticationError, NoStream, <<>>)
    ELSE
        LET req == QueryRequest(c, "/run_agent_stream")
        IN  CASE resp.kind = "401" ->
                    Result([c EXCEPT !.is_authenticated = FALSE,
                                     !.auth_token = None],
                           AuthenticationError, NoStream, <<req>>)
              [] resp.kind \in QueryFailures ->
                    Result(c, QueryFailure(resp.kind), NoStream, <<req, req>>)
              [] OTHER ->
                    LET r == for_event(events, NoStream)
                    IN  Result(c, r.outcome, r.seen, <<req>>)

\* query_stream, for a caller that iterates to the end; the value is what
\* the caller has seen when the generator stops.
query_stream(c, resp, events) ==
    IF ~c.is_authenticated /\ ~Truthy(c.dulayni_api_key) THEN
        Result(c, AuthenticationError, NoStream, <<>>)
    ELSE
        LET req == QueryRequest(c, "/run_agent_stream")
        IN  CASE resp.kind = "401" ->
                    Result([c EXCEPT !.is_authenticated = FALSE,
                                     !.auth_token = None],
                           AuthenticationError, NoStream, <<req>>)
              [] resp.kind \in QueryFailures ->
                    Result(c, QueryFailure(resp.kind), NoStream, <<req>>)
              [] OTHER ->
                    LET r == for_event(events, NoStream)
                    IN  Result(c, r.outcome, r.seen, <<req>>)

----------------------------------------------------------------------------
(* The session store: load_session, save_session, is_session_valid.        *)

\* The session file does not exist.
Absent == [kind |-> "absent"]

\* The session file holds text that json.load rejects (JSONDecodeError).
Garbage == [kind |-> "garbage"]

\* dict.get(key, default) on a JSON object (a function on its keys).
Get(d, key, default) == IF key \in DOMAIN d THEN d[key] ELSE default

\* The members of a session record that hold a number.
NumberKeys == {"expiry_time"}

JsonValueNullAsEmpty(key, v) ==
    IF key \in NumberKeys THEN <<"number", v>>
    ELSE IF v = None THEN <<"string", "">>
    ELSE <<"string", v>>

\* json.dump: every member written as a literal: a number, null or a string.
JsonValue(key, v) ==
    IF key \in NumberKeys THEN <<"number", v>>
    ELSE IF v = None THEN <<"null">>
    ELSE <<"string", v>>

json_dump(d) ==
    [kind |-> "json", members |-> [k \in DOMAIN d |-> JsonValue(k, d[k])]]

\* json.load of text json.dump wrote.
PyValue(j) == IF j[1] = "null" THEN None ELSE j[2]

json_load(file) == [k \in DOMAIN file.members |-> PyValue(file.members[k])]

\* Python's None where a session record is expected.
NoSession == [none |-> TRUE]

\* load_session: None when the file is missing or is not JSON; a file whose
\* JSON text is not an object loads as the value it denotes, of which only the
\* truth value is kept.
load_session(file) ==
    IF file.kind = "json" THEN json_load(file)
    ELSE IF file.kind = "json_value" THEN [nondict |-> file.truthy]
    ELSE NoSession

\* save_session: the parent directory is created, the file overwritten.
save_session(session_data) == json_dump(session_data)

is_session_valid_inclusive(session_data, t) ==
    IF session_data = NoSession THEN FALSE
    ELSE IF DOMAIN session_data = {} THEN FALSE
    ELSE IF ~Truthy(Get(session_data, "auth_token", None)) THEN FALSE
    ELSE t <= Get(session_data, "expiry_time", 0)

\* is_session_valid(session_data) at time t.
is_session_valid(session_data, t) ==
    IF session_data = NoSession THEN FALSE
    ELSE IF DOMAIN session_data = {} THEN FALSE
    ELSE IF ~Truthy(Get(session_data, "auth_token", None)) THEN FALSE
    ELSE t < Get(session_data, "expiry_time", 0)

\* A session record that expires at the moment it is written.
SessionRecordNoLifetime(phone, token, t) ==
    [phone_number |-> phone, auth_token |-> token, expiry_time |-> t]

\* The session record the phone flow writes after verify_code returned.
SessionRecord(phone, token, t) ==
    [phone_number |-> phone, auth_token |-> token,
     expiry_time |-> t + SessionLifetime]

\* Session files an invocation can find: none, unreadable text, a record
\* without a token, and records written by an earlier invocation at time 0
\* or one lifetime before it (with a null or empty token among them).
InitialSessionFiles ==
    {Absent, Garbage, json_dump([phone_number |-> "P"])}
    \cup {json_dump(SessionRecord(p, "t1", t0)) :
             p \in Phones, t0 \in {0, 0 - SessionLifetime}}
    \cup {json_dump(SessionRecord("P", t, 0)) : t \in {"", None}}

----------------------------------------------------------------------------
(* The client used as a library: any sequence of calls.                    *)

QueryOps == {"query", "query_json"}

\* The call before this one was a query of a client without a static key
\* that the service answered with HTTP 401.
Expired401(call, c) ==
    /\ call.op \in QueryOps
    /\ call.resp = "401"
    /\ call.requests # <<>>
    /\ ~Truthy(c.dulayni_api_key)

\* The record of a call: what was called, what the service answered, how
\* the call ended, and whether it directly follows an expired-credential
\* answer.
Call(op, resp, r) ==
    [op |-> op, resp |-> resp, outcome |-> r.outcome, value |-> r.value,
     requests |-> r.requests, after401 |-> Expired401(last, client)]

NoCall == [op |-> "none", resp |-> "none", outcome |-> "return", value |-> None,
           requests |-> <<>>, after401 |-> FALSE]

\* Nothing is under check and start_server has not been called.
ExtIdle ==
    /\ input = "none"
    /\ output = "none"
    /\ spawned = <<>>
    /\ elapsed = 0
    /\ returned = <<>>

\* run has not been invoked.
RunAtRest ==
    /\ session0 = Absent
    /\ now = 0
    /\ cfg = [phone_number |-> None, dulayni_api_key |-> None, query |-> None,
              print_mode |-> "rich"]
    /\ pc = "idle"
    /\ proc = None
    /\ helper = "none"
    /\ foreign = "none"
    /\ net = <<>>
    /\ stops = 0
    /\ terminates = 0
    /\ exit = "none"
    /\ queries = 0

\* run has not been invoked and there is no session file.
AtRest == sessionFile = Absent /\ RunAtRest

Idle ==
    /\ ExtIdle
    /\ AtRest

Init ==
    /\ \E phone \in Phones \cup {None}, key \in Keys \cup {None} :
           client = DulayniClient(phone, key)
    /\ last = NoCall
    /\ Idle

Apply(op, resp, r) ==
    /\ client' = r.client
    /\ last' = Call(op, resp, r)
    /\ UNCHANGED <<ext, sessionFile, now, runVars>>

SetAuthToken ==
    \E token \in Tokens \cup {None, ""} :
        Apply("set_auth_token", "none",
              Result(set_auth_token(client, token), "return", None, <<>>))

SetDulayniApiKey ==
    \E key \in Keys \cup {None, ""} :
        Apply("set_dulayni_api_key", "none",
              Result(set_dulayni_api_key(client, key), "return", None, <<>>))

SetPhoneNumber ==
    \E phone \in Phones \cup {None} :
        Apply("set_phone_number", "none",
              Result(set_phone_number(client, phone), "return", None, <<>>))

RequestVerificationCode ==
    \E phone \in Phones \cup {None}, resp \in AuthResponses :
        Apply("request_verification_code", resp.kind,
              request_verification_code(client, phone, resp))

VerifyCode ==
    \E code \in Codes, sid \in SessionIds \cup {None}, resp \in VerifyResponses :
        Apply("verify_code", resp.kind, verify_code(client, code, sid, resp))

Authenticate ==
    \E callback \in Codes \cup {None},
       authResp \in AuthResponses, verifyResp \in VerifyResponses :
        Apply("authenticate", authResp.kind,
              authenticate(client, callback, authResp, verifyResp))

Query ==
    \E resp \in QueryResponses :
        Apply("query", resp.kind, query(client, resp))

QueryJson ==
    \E resp \in QueryResponses :
        Apply("query_json", resp.kind, query_json(client, resp))

\* What the remote service can answer to POST /run_agent_stream; a 2xx
\* answer carries the event stream.
StreamResponses == {[kind |-> k] : k \in {"ok", "401"} \cup QueryFailures}

\* query_stream is called and its generator consumed; the events the service
\* sent are kept in input, what the caller has seen in output.
QueryStreamOver(streams) ==
    \E resp \in StreamResponses :
        \E events \in IF resp.kind = "ok" THEN streams ELSE {<<>>} :
            LET r == query_stream(client, resp, events)
            IN  /\ client' = r.client
                /\ last' = Call("query_stream", resp.kind,
                                Result(r.client, r.outcome, None, r.requests))
                /\ input' = events
                /\ output' = r.value
                /\ UNCHANGED <<spawned, elapsed, returned, sessionFile, now,
                               runVars>>

\* The streams the library specification offers: the empty one, one message,
\* one undecodable event, a connection that breaks at once.
ShortStreams ==
    {<<>>, <<[type |-> "message", id |-> "m1"]>>}
        \cup {<<e>> : e \in Events \ WellFormedEvents}

QueryStream == QueryStreamOver(ShortStreams)

Next ==
    \/ SetAuthToken
    \/ SetDulayniApiKey
    \/ SetPhoneNumber
    \/ RequestVerificationCode
    \/ VerifyCode
    \/ Authenticate
    \/ Query
    \/ QueryJson
    \/ QueryStream

Spec == Init /\ [][Next]_vars

----------------------------------------------------------------------------
(* The run command (cli.py): helper start, authentication, queries, and    *)
(* the cleanup of its finally block.                                       *)

using_dulayni_phone_first ==
    Truthy(cfg.dulayni_api_key) /\ ~Truthy(cfg.phone_number)

\* run: using_dulayni = bool(dulayni_key)
using_dulayni == Truthy(cfg.dulayni_api_key)

\* Reuse of any valid stored session, whatever its phone number.
UseStoredSessionAnyPhone(session_data, phone, t) ==
    is_session_valid(session_data, t)

\* Reuse of no stored session.
UseStoredSessionNever(session_data, phone, t) == FALSE

\* run: the stored session is reused when it is valid and is for this phone.
UseStoredSession(session_data, phone, t) ==
    /\ is_session_valid(session_data, t)
    /\ Get(session_data, "phone_number", None) = phone

\* Cleanup placed after the phase instead of in a finally block: an exception
\* or an interrupt leaves run without it.
LeaveUnprotected(how) ==
    /\ pc' = IF how \in {"normal", "abort"} THEN "finally" ELSE "done"
    /\ exit' = how

\* The protected phase (the try block) is left: the finally block runs next.
Leave(how) ==
    /\ pc' = "finally"
    /\ exit' = how

\* How an exception raised by a client call leaves a handler that catches
\* the exception classes in caught and aborts.
Raised(outcome, caught) == IF outcome \in caught THEN "abort" ELSE "exception"

Configurations ==
    {[phone_number |-> p, dulayni_api_key |-> k, query |-> q, print_mode |-> m] :
        p \in {"P", None}, k \in Keys \cup {None}, q \in {"hello", None},
        m \in {"rich", "json"}}

RunInit ==
    /\ ExtIdle
    /\ client = DulayniClient(None, None)
    /\ last = NoCall
    /\ sessionFile \in InitialSessionFiles
    /\ session0 = sessionFile
    /\ now = 0
    /\ cfg \in {c \in Configurations : c.query = None => c.print_mode = "rich"}
    /\ pc = "start"
    /\ proc = None
    /\ helper = "none"
    /\ foreign \in {"none", "healthy", "unhealthy"}
    /\ net = <<>>
    /\ stops = 0
    /\ terminates = 0
    /\ exit = "none"
    /\ queries = 0

\* run, lines 727-742: no authentication material aborts before anything starts.
RunSelectMethod ==
    /\ pc = "start"
    /\ IF ~Truthy(cfg.phone_number) /\ ~Truthy(cfg.dulayni_api_key)
       THEN pc' = "done" /\ exit' = "abort_config"
       ELSE pc' = "start_server" /\ exit' = exit
    /\ UNCHANGED <<ext, client, last, sessionFile, session0, now, cfg, proc, helper,
                   foreign, net, stops, terminates, queries>>

\* start_server(port): nothing is spawned when the port answers /health or is
\* in use; the spawn itself may fail; a spawned helper is polled for health
\* and its handle returned whether or not it became healthy (it may also
\* have died meanwhile).
RunStartServer ==
    /\ pc = "start_server"
    /\ \/ /\ foreign # "none"
          /\ proc' = None /\ helper' = helper
       \/ /\ foreign = "none"
          /\ proc' = None /\ helper' = helper
       \/ /\ foreign = "none"
          /\ proc' = "handle" /\ helper' \in {"alive", "dead"}
    /\ pc' = "create_client"
    /\ UNCHANGED <<ext, client, last, sessionFile, session0, now, cfg, foreign, net,
                   stops, terminates, exit, queries>>

\* The user interrupts start_server while it polls the spawned helper: the
\* call at line 760 is outside the try block, the exception leaves run.
RunStartServerInterrupted ==
    /\ pc = "start_server"
    /\ foreign = "none"
    /\ helper' = "alive"
    /\ pc' = "done"
    /\ exit' = "interrupt_startup"
    /\ UNCHANGED <<ext, client, last, sessionFile, session0, now, cfg, proc, foreign,
                   net, stops, terminates, queries>>

\* run, lines 763-795: the client is created; the key method needs nothing
\* more; the phone method reuses the stored session or starts a fresh flow.
RunAuthenticate ==
    /\ pc = "create_client"
    /\ LET c == DulayniClient(cfg.phone_number, cfg.dulayni_api_key)
           session_data == load_session(sessionFile)
       IN  IF using_dulayni THEN
               client' = c /\ pc' = "dispatch" /\ last' = last
           ELSE IF UseStoredSession(session_data, cfg.phone_number, now) THEN
               /\ client' = set_auth_token(c, session_data["auth_token"])
               /\ last' = Call("set_auth_token", "none",
                               Result(client', "return", None, <<>>))
               /\ pc' = "dispatch"
           ELSE
               client' = c /\ pc' = "request_code" /\ last' = last
    /\ UNCHANGED <<ext, sessionFile, session0, now, cfg, proc, helper, foreign,
                   net, stops, terminates, exit, queries>>

\* run, line 802: client.request_verification_code()
RunRequestCode ==
    /\ pc = "request_code"
    /\ \E resp \in AuthResponses :
        LET r == request_verification_code(client, None, resp)
        IN  /\ client' = r.client
            /\ last' = Call("request_verification_code", resp.kind, r)
            /\ net' = net \o r.requests
            /\ IF r.outcome = "return"
               THEN pc' = "input_code" /\ exit' = exit
               ELSE Leave(Raised(r.outcome, {AuthenticationError}))
    /\ UNCHANGED <<ext, sessionFile, session0, now, cfg, proc, helper, foreign,
                   stops, terminates, queries>>

\* run, lines 803-816: the code is read, verified, and the session saved.
RunVerifyCode ==
    /\ pc = "input_code"
    /\ \E code \in Codes, resp \in VerifyResponses :
        LET r == verify_code(client, code, None, resp)
        IN  /\ client' = r.client
            /\ last' = Call("verify_code", resp.kind, r)
            /\ net' = net \o r.requests
            /\ IF r.outcome = "return"
               THEN /\ sessionFile' = save_session(
                          SessionRecord(cfg.phone_number, r.value.auth_token, now))
                    /\ pc' = "dispatch" /\ exit' = exit
               ELSE /\ sessionFile' = sessionFile
                    /\ Leave(Raised(r.outcome, {AuthenticationError}))
    /\ UNCHANGED <<ext, session0, now, cfg, proc, helper, foreign, stops, terminates,
                   queries>>

\* run, line 819: batch mode when a query was given, interactive otherwise
\* (the health check of interactive mode is advisory).
RunDispatch ==
    /\ pc = "dispatch"
    /\ pc' = IF Truthy(cfg.query) THEN "batch" ELSE "loop"
    /\ UNCHANGED <<ext, client, last, sessionFile, session0, now, cfg, proc, helper,
                   foreign, net, stops, terminates, exit, queries>>

\* run, lines 821-835: one query; every client error aborts.
RunBatch ==
    /\ pc = "batch"
    /\ \E resp \in QueryResponses :
        LET r == IF cfg.print_mode = "json" THEN query_json(client, resp)
                 ELSE query(client, resp)
        IN  /\ client' = r.client
            /\ last' = Call(IF cfg.print_mode = "json" THEN "query_json" ELSE "query",
                            resp.kind, r)
            /\ net' = net \o r.requests
            /\ Leave(IF r.outcome = "return" THEN "normal"
                     ELSE Raised(r.outcome, ClientErrors))
    /\ UNCHANGED <<ext, sessionFile, session0, now, cfg, proc, helper, foreign,
                   stops, terminates, queries>>

\* run, lines 888-890: the input q ends the loop.
RunLoopQuit ==
    /\ pc = "loop"
    /\ Leave("normal")
    /\ UNCHANGED <<ext, client, last, sessionFile, session0, now, cfg, proc, helper,
                   foreign, net, stops, terminates, queries>>

\* run, lines 891-892: a blank input is skipped.
RunLoopBlank ==
    /\ pc = "loop"
    /\ queries < MaxInputs
    /\ queries' = queries + 1
    /\ UNCHANGED <<ext, client, last, sessionFile, session0, now, cfg, pc, proc,
                   helper, foreign, net, stops, terminates, exit>>

\* A loop whose handlers name the client errors alone: any other exception
\* propagates out of the loop.
loop_except_client_errors_only(outcome) ==
    IF outcome \in ClientErrors \cup {"return"} THEN "continue" ELSE "exception"

\* run, lines 898-908: the except clauses around one turn of the loop. The
\* client errors and, by the last clause, every other Exception are printed
\* and the loop goes on; a result is printed likewise.
loop_except(outcome) ==
    IF outcome = "return" THEN "continue"
    ELSE IF outcome \in ClientErrors THEN "continue"
    ELSE "continue"

\* run, lines 894-908: one query of the loop; every exception is reported
\* and the loop reads the next input.
RunLoopQuery ==
    /\ pc = "loop"
    /\ queries < MaxInputs
    /\ \E resp \in QueryResponses :
        LET r == query(client, resp)
        IN  /\ client' = r.client
            /\ last' = Call("query", resp.kind, r)
            /\ net' = net \o r.requests
            /\ IF loop_except(r.outcome) = "continue"
               THEN UNCHANGED <<pc, exit>>
               ELSE Leave(loop_except(r.outcome))
    /\ queries' = queries + 1
    /\ UNCHANGED <<ext, sessionFile, session0, now, cfg, proc, helper, foreign,
                   stops, terminates>>

\* KeyboardInterrupt anywhere in the try block: in the loop it is caught and
\* breaks the loop, elsewhere it propagates; the finally block runs.
RunInterrupt ==
    /\ pc \in {"create_client", "request_code", "input_code", "dispatch",
               "batch", "loop"}
    /\ Leave("interrupt")
    /\ UNCHANGED <<ext, client, last, sessionFile, session0, now, cfg, proc, helper,
                   foreign, net, stops, terminates, queries>>

\* run, line 912: stop_server(port) posts /shutdown; failures are swallowed.
\* Whoever listens on the port may or may not exit on the request.
RunStopServer ==
    /\ pc = "finally"
    /\ stops' = stops + 1
    /\ foreign' \in (IF foreign = "healthy" THEN {"healthy", "none"} ELSE {foreign})
    /\ pc' = "fallback"
    /\ UNCHANGED <<ext, client, last, sessionFile, session0, now, cfg, proc, helper,
                   net, terminates, exit, queries>>

\* run, lines 915-918: a live spawned process is terminated and waited for
\* two seconds; wait returns when it died and raises TimeoutExpired when not.
RunFallback ==
    /\ pc = "fallback"
    /\ IF proc # None /\ helper = "alive"
       THEN /\ terminates' = terminates + 1
            /\ helper' \in {"dead", "alive"}
       ELSE UNCHANGED <<terminates, helper>>
    /\ pc' = "done"
    /\ UNCHANGED <<ext, client, last, sessionFile, session0, now, cfg, proc, foreign,
                   net, stops, exit, queries>>

\* The spawned helper exits on its own (a crash, or its /shutdown handler).
HelperExits ==
    /\ helper = "alive"
    /\ pc \notin {"done"}
    /\ helper' = "dead"
    /\ UNCHANGED <<ext, client, last, sessionFile, session0, now, cfg, pc, proc,
                   foreign, net, stops, terminates, exit, queries>>

\* Time passes while run waits for input or for the network.
Tick ==
    /\ pc \in {"create_client", "input_code", "loop"}
    /\ now < MaxTicks * TickSeconds
    /\ now' = now + TickSeconds
    /\ UNCHANGED <<ext, client, last, sessionFile, session0, cfg, pc, proc, helper,
                   foreign, net, stops, terminates, exit, queries>>

RunNext ==
    \/ RunSelectMethod
    \/ RunStartServer
    \/ RunStartServerInterrupted
    \/ RunAuthenticate
    \/ RunRequestCode
    \/ RunVerifyCode
    \/ RunDispatch
    \/ RunBatch
    \/ RunLoopQuit
    \/ RunLoopBlank
    \/ RunLoopQuery
    \/ RunInterrupt
    \/ RunStopServer
    \/ RunFallback
    \/ HelperExits
    \/ Tick

RunSpec == RunInit /\ [][RunNext]_vars

----------------------------------------------------------------------------
(* Properties of the client used as a library (checked under Spec).        *)

\* C1: a query of a phone-flow client (no static key) answered with HTTP 401
\* ends with is_authenticated false and auth_token None and raises the
\* authentication error; the query call made directly after it raises the
\* authentication error without sending any HTTP request.
C1_ExpiredCredential ==
    /\ Expired401(last, client) =>
          /\ client.is_authenticated = FALSE
          /\ client.auth_token = None
          /\ last.outcome = AuthenticationError
    /\ (last.op \in QueryOps /\ last.after401) =>
          /\ last.outcome = AuthenticationError
          /\ last.requests = <<>>

\* C1 witness: a query was made right after a 401 and sent nothing.
C1_Witness ==
    /\ last.op = "query"
    /\ last.after401
    /\ last.requests = <<>>
    /\ last.outcome = AuthenticationError

\* C2 (as claimed): in every reachable state is_authenticated is true if and
\* only if dulayni_api_key is set or auth_token is set (a rejected token is
\* cleared, so a set token is one not rejected as expired).
C2_AuthenticatedIffCredential ==
    client.is_authenticated <=>
        (Truthy(client.dulayni_api_key) \/ Truthy(client.auth_token))

SkippableOps == {"request_verification_code", "verify_code", "authenticate"}

\* C7: with a static key set, request_verification_code and verify_code
\* return a result with status "skipped", authenticate returns true with
\* is_authenticated true, and none of them sends an HTTP request or changes
\* verification_session_id (or the bearer token).
C7_KeySkipsVerification ==
    [][(last'.op \in SkippableOps /\ Truthy(client.dulayni_api_key)) =>
          /\ last'.outcome = "return"
          /\ last'.requests = <<>>
          /\ client'.verification_session_id = client.verification_session_id
          /\ client'.auth_token = client.auth_token
          /\ client'.dulayni_api_key = client.dulayni_api_key
          /\ last'.op \in {"request_verification_code", "verify_code"} =>
                 last'.value.status = "skipped"
          /\ last'.op = "authenticate" =>
                 (last'.value = TRUE /\ client'.is_authenticated)]_vars

\* C7 witness: verify_code was skipped on a client with a static key that
\* had been handed a session id to verify.
C7_Witness ==
    /\ last.op = "verify_code"
    /\ Truthy(client.dulayni_api_key)
    /\ last.outcome = "return"
    /\ last.value.status = "skipped"
    /\ last.requests = <<>>

----------------------------------------------------------------------------
(* Properties of the run command (checked under RunSpec).                  *)

\* The session file holds a record with a non-empty token, an expiry after
\* time t, and the given phone number.
StoredValidFor(file, phone, t) ==
    /\ file.kind = "json"
    /\ {"phone_number", "auth_token", "expiry_time"} \subseteq DOMAIN file.members
    /\ file.members["auth_token"][1] = "string"
    /\ file.members["auth_token"][2] # ""
    /\ t < file.members["expiry_time"][2]
    /\ file.members["phone_number"] = <<"string", phone>>

\* The step is the authentication decision of a phone-flow invocation.
AuthDecisionStep ==
    /\ pc = "create_client"
    /\ pc' \in {"dispatch", "request_code"}
    /\ ~using_dulayni

\* The requests the step sent.
NewRequests == {net'[i] : i \in (DOMAIN net') \ (DOMAIN net)}

\* C3: with a valid stored session (non-empty token, not expired) for the
\* phone being authenticated, the phone flow sends nothing to /auth or
\* /verify, the client's bearer token becomes exactly the stored token and
\* is_authenticated becomes true; no later step of the invocation sends an
\* /auth or /verify request either.
C3_ValidSessionReused ==
    [][/\ (AuthDecisionStep /\ StoredValidFor(sessionFile, cfg.phone_number, now)) =>
             /\ pc' = "dispatch"
             /\ net' = <<>>
             /\ client'.auth_token = sessionFile.members["auth_token"][2]
             /\ client'.is_authenticated = TRUE
       /\ pc \notin {"request_code", "input_code"} =>
             \A r \in NewRequests : r.url \notin {"/auth", "/verify"}]_vars

\* C3 witness: the flow reused the stored token and sent nothing.
C3_Witness ==
    /\ pc = "dispatch"
    /\ last.op = "set_auth_token"
    /\ StoredValidFor(sessionFile, cfg.phone_number, now)
    /\ client.auth_token = sessionFile.members["auth_token"][2]
    /\ net = <<>>

\* C4: without a valid stored session for the requested phone (no record,
\* unreadable, expired, empty token, or a valid record for another phone),
\* the phone flow does not use the stored token; its next step sends the
\* /auth request for the requested phone and captures the returned
\* session_id; a /verify request is only ever sent after that /auth request
\* and carries the captured session_id.
C4_FreshAuthOtherwise ==
    [][/\ (AuthDecisionStep /\ ~StoredValidFor(sessionFile, cfg.phone_number, now)) =>
             /\ pc' = "request_code"
             /\ client'.auth_token = None
             /\ client'.is_authenticated = FALSE
             /\ net' = <<>>
       /\ (pc = "request_code" /\ last'.op = "request_verification_code") =>
             /\ net' = <<[url |-> "/auth", phone_number |-> cfg.phone_number]>>
             /\ pc' = "input_code" <=> last'.resp = "ok"
             /\ pc' = "input_code" =>
                    client'.verification_session_id = last'.value.session_id
       /\ \A i \in DOMAIN net' :
             net'[i].url = "/verify" =>
                 /\ i = 2
                 /\ net'[1] = [url |-> "/auth", phone_number |-> cfg.phone_number]
                 /\ net'[i].session_id = client'.verification_session_id]_vars

\* C4 witness: a valid session for another phone was stored, and the flow
\* sent /auth for the requested phone.
C4_Witness ==
    /\ pc = "input_code"
    /\ cfg.phone_number = "P"
    /\ StoredValidFor(sessionFile, "Q", now)
    /\ net = <<[url |-> "/auth", phone_number |-> "P"]>>
    /\ client.verification_session_id = "s1"

\* C5: when /verify succeeds (a 2xx answer with a bearer token), the flow is
\* authenticated: the client holds the returned token with is_authenticated
\* true, and the session file holds exactly {phone_number: requested phone,
\* auth_token: returned token, expiry_time: now + 24 hours}.
C5_VerifySuccessPersists ==
    [][(/\ pc = "input_code"
        /\ last'.op = "verify_code"
        /\ last'.resp = "ok"
        /\ last'.outcome = "return"
        /\ Truthy(last'.value.auth_token)) =>
          /\ pc' = "dispatch"
          /\ client'.is_authenticated = TRUE
          /\ client'.auth_token = last'.value.auth_token
          /\ sessionFile'.kind = "json"
          /\ sessionFile'.members =
                [phone_number |-> <<"string", cfg.phone_number>>,
                 auth_token |-> <<"string", last'.value.auth_token>>,
                 expiry_time |-> <<"number", now + 24 * 60 * 60>>]]_vars

\* C5 witness: /verify succeeded some time after the invocation started and
\* replaced an earlier session record.
C5_Witness ==
    /\ pc = "dispatch"
    /\ last.op = "verify_code"
    /\ last.resp = "ok"
    /\ client.auth_token = "t2"
    /\ now > 0
    /\ session0.kind = "json"
    /\ sessionFile # session0

\* The step is an /auth or /verify request of the flow that the service
\* rejected with an HTTP error status.
RejectedStep ==
    /\ \/ pc = "request_code" /\ last'.op = "request_verification_code"
       \/ pc = "input_code" /\ last'.op = "verify_code"
    /\ last'.resp = "http_error"

Is401(call) ==
    /\ call.op \in QueryOps
    /\ call.resp = "401"
    /\ call.requests # <<>>

\* C8: a 401 answer to a query clears only the in-memory bearer token and
\* the is_authenticated flag; the session file is neither deleted nor
\* rewritten by that step or by any later step until the next call.
C8_ExpiryKeepsSessionFile ==
    [][Is401(last') =>
          /\ sessionFile' = sessionFile
          /\ client' = [client EXCEPT !.is_authenticated = FALSE,
                                      !.auth_token = None]]_vars

\* C8 witness: the invocation ended after a 401 and the session record it
\* had reused is still stored and still valid.
C8_Witness ==
    /\ Is401(last)
    /\ pc = "done"
    /\ StoredValidFor(sessionFile, cfg.phone_number, now)
    /\ client.auth_token = None

PhaseExits == {"normal", "abort", "exception", "interrupt"}

\* The positions of run inside its try block.
PhasePcs == {"create_client", "request_code", "input_code", "dispatch",
             "batch", "loop"}

\* C9: however the authentication/query/interactive phase is left (normal
\* completion, handled error and abort, unhandled exception, interrupt),
\* the cleanup runs: stop_server is called exactly once, never before the
\* phase is left, and after it terminate is applied to the spawned process
\* handle exactly when that process is still alive.
C9_CleanupAlwaysRuns ==
    [][/\ (pc \in PhasePcs /\ pc' \notin PhasePcs) =>
             (pc' = "finally" /\ exit' \in PhaseExits)
       /\ pc' \in PhasePcs \cup {"finally"} => (stops' = 0 /\ terminates' = 0)
       /\ (pc = "finally" /\ pc' # pc) => pc' = "fallback"
       /\ pc' = "fallback" => (stops' = 1 /\ terminates' = 0)
       /\ (pc = "fallback" /\ pc' # pc) =>
             /\ pc' = "done"
             /\ stops' = 1
             /\ terminates' = IF proc # None /\ helper = "alive" THEN 1 ELSE 0]_vars

\* C9 witness: an unhandled exception left the phase, stop_server was called
\* once and the live helper was terminated.
C9_Witness ==
    /\ pc = "done"
    /\ exit = "exception"
    /\ stops = 1
    /\ terminates = 1

\* C10 (as claimed): when the invocation has terminated, no helper process
\* it spawned is still alive.
C10_NoOrphanedHelper == pc = "done" => helper # "alive"

\* A query or query_json call that got past the authentication guard and
\* sent its request.
QuerySent == last.op \in QueryOps /\ last.requests # <<>>

RemoteOps ==
    {"request_verification_code", "verify_code", "query", "query_json",
     "query_stream"}

\* C16 (as claimed): a call of request_verification_code, verify_code, query,
\* query_json or query_stream either returns or raises one of the client's
\* own error classes, whatever the transport or the body did.
C16_OnlyClientErrors ==
    last.op \in RemoteOps => last.outcome \in {"return"} \cup ClientErrors

\* C17: one call of query, query_json or query_stream sends at most one HTTP
\* request, to its own endpoint: none is repeated after a timeout, a failed
\* connection or a 401 answer, and none goes to the authentication endpoints.
C17_AtMostOneRequest ==
    last.op \in QueryOps \cup {"query_stream"} =>
        /\ Len(last.requests) <= 1
        /\ \A k \in 1..Len(last.requests) :
               last.requests[k].url =
                   IF last.op = "query_stream" THEN "/run_agent_stream"
                   ELSE "/run_agent"

C17_Witness ==
    /\ last.op = "query_stream"
    /\ last.resp \in {"timeout", "401"}
    /\ Len(last.requests) = 1

\* ---------------------------------------------------------------------
\* query_stream over longer streams
\* ---------------------------------------------------------------------

\* A client that holds a token or a key, and the stream the service will
\* send on a 2xx answer.
StreamInit ==
    /\ \E c \in {set_auth_token(DulayniClient("P", None), "t1"),
                  DulayniClient(None, "sk-1")} : client = c
    /\ last = NoCall
    /\ input \in StreamsUpTo(MaxEvents)
    /\ output = NoStream
    /\ spawned = <<>>
    /\ elapsed = 0
    /\ returned = <<>>
    /\ AtRest

\* query_stream is called; a 2xx answer carries the stream drawn at the start.
QueryLongStream ==
    \E resp \in StreamResponses :
        LET r == query_stream(client, resp, input)
        IN  /\ client' = r.client
            /\ last' = Call("query_stream", resp.kind,
                            Result(r.client, r.outcome, None, r.requests))
            /\ output' = r.value
            /\ UNCHANGED <<input, spawned, elapsed, returned, sessionFile, now,
                           runVars>>

StreamNext == QueryLongStream

StreamSpec == StreamInit /\ [][StreamNext]_vars

IsMessage(data) == data.type = "message"

IsDisplayEvent(data) == data.type \in {"tool_start", "tool_end", "todos_update"}

\* The service answered 2xx and every event of the stream decoded.
StreamDelivered ==
    /\ last.op = "query_stream"
    /\ last.resp = "ok"
    /\ last.requests # <<>>
    /\ \A k \in 1..Len(input) : input[k] \in WellFormedEvents

\* C13: for a stream of decodable events, query_stream yields exactly the
\* message events in the order sent, hands every tool_start, tool_end and
\* todos_update event to the display in the order sent, and the display
\* renders the end of a tool call only after it rendered its start.
C13_StreamOrder ==
    StreamDelivered =>
        /\ last.outcome = "return"
        /\ output.yielded = SelectSeq(input, IsMessage)
        /\ output.calls = SelectSeq(input, IsDisplayEvent)
        /\ \A k \in 1..Len(output.display.shown) :
               output.display.shown[k][1] = "end" =>
                   \E j \in 1..(k - 1) :
                       output.display.shown[j] =
                           <<"start", output.display.shown[k][2]>>

C13_Witness ==
    /\ StreamDelivered
    /\ input = <<[type |-> "tool_start", id |-> "a"],
                 [type |-> "tool_end", id |-> "b"],
                 [type |-> "message", id |-> "m1"]>>
    /\ output.yielded # <<>>
    /\ output.display.shown = <<<<"start", "a">>>>

\* Both a phone number and a static key were resolved for the invocation.
BothResolved == Truthy(cfg.phone_number) /\ Truthy(cfg.dulayni_api_key)

\* C22: with both a phone number and a static key resolved, the key method
\* is used: the stored session is not taken up (no bearer token is set, the
\* session file stays as found), nothing is sent to /auth or /verify, and
\* every query request carries the key; the phone flow runs only without a
\* key.
C22_KeyWinsOverPhone ==
    /\ BothResolved =>
          /\ client.auth_token = None
          /\ sessionFile = session0
          /\ \A i \in DOMAIN net :
                /\ net[i].url \notin {"/auth", "/verify"}
                /\ net[i].url = "/run_agent" =>
                      /\ net[i].dulayni_api_key = cfg.dulayni_api_key
                      /\ net[i].bearer = None
    /\ pc \in {"request_code", "input_code"} => ~Truthy(cfg.dulayni_api_key)

C22_Witness ==
    /\ BothResolved
    /\ StoredValidFor(sessionFile, cfg.phone_number, now)
    /\ \E i \in DOMAIN net : net[i].url = "/run_agent"

\* ---------------------------------------------------------------------
\* start_server, step by step (dulayni/mcp/start.py)
\* ---------------------------------------------------------------------

\* How many times start_server is called on the port.
MaxCalls == 2

\* Durations in tenths of a second: the health-poll timeout of
\* wait_for_server, the pause between two polls, and the timeout of one
\* GET /health.
WaitTimeout == 50
PollSleep == 2
HealthTimeout == 10

\* start_server returns None, or the handle of the process it spawned (here
\* the position of the process in spawned).
NoHandle == 0

\* A helper process in spawned is "booting" (alive, port not bound yet),
\* "listening" (port bound, /health not answering 200), "healthy" or "dead".

\* GET /health answers 200 within its timeout.
is_server_running ==
    \/ foreign = "healthy"
    \/ \E i \in 1..Len(spawned) : spawned[i] = "healthy"

\* Nothing accepts connections on the port.
is_port_free ==
    /\ foreign = "none"
    /\ \A i \in 1..Len(spawned) : spawned[i] \notin {"listening", "healthy"}

start_server_always_spawns(running, free) == "spawn"

\* The two checks start_server makes before it spawns anything.
start_server_checks(running, free) ==
    IF running THEN "already_running"
    ELSE IF ~free THEN "port_in_use"
    ELSE "spawn"

after_wait_raises(healthy, process) ==
    IF healthy THEN [outcome |-> "return", value |-> process]
    ELSE [outcome |-> "RuntimeError", value |-> NoHandle]

\* What start_server does once wait_for_server has answered: the handle is
\* returned on both branches, the attempt to read the helper's error output
\* swallows every exception.
after_wait(healthy, process) == [outcome |-> "return", value |-> process]

StartInit ==
    /\ client = DulayniClient(None, None)
    /\ last = NoCall
    /\ sessionFile = Absent
    /\ session0 = NoSession
    /\ now = 0
    /\ cfg = [phone_number |-> "P", dulayni_api_key |-> None, query |-> None]
    /\ pc = "start_server"
    /\ proc = None
    /\ helper = "none"
    /\ foreign \in {"none", "healthy", "unhealthy"}
    /\ net = "up"
    /\ stops = 0
    /\ terminates = 0
    /\ exit = "none"
    /\ queries = 0
    /\ input = "none"
    /\ output = "none"
    /\ spawned = <<>>
    /\ elapsed = 0
    /\ returned = <<>>

StartUnchanged ==
    UNCHANGED <<client, last, sessionFile, session0, now, cfg, proc, helper,
                foreign, net, stops, terminates, queries, input, output>>

\* start_server up to the spawn: lines 47-73.
StartServerCheck ==
    /\ pc = "start_server"
    /\ LET d == start_server_checks(is_server_running, is_port_free)
       IN  \/ /\ d # "spawn"
              /\ returned' = Append(returned, NoHandle)
              /\ pc' = "create_client"
              /\ UNCHANGED <<spawned, elapsed>>
           \/ /\ d = "spawn"          \* Popen raises: caught, None returned
              /\ returned' = Append(returned, NoHandle)
              /\ pc' = "create_client"
              /\ UNCHANGED <<spawned, elapsed>>
           \/ /\ d = "spawn"
              /\ spawned' = Append(spawned, "booting")
              /\ elapsed' = 0
              /\ pc' = "wait_for_server"
              /\ UNCHANGED returned
    /\ exit' = exit
    /\ StartUnchanged

\* start_server hands its result to run, whose call is outside the try block.
StartServerReturn(r) ==
    IF r.outcome = "return"
    THEN /\ returned' = Append(returned, r.value)
         /\ pc' = "create_client"
         /\ exit' = exit
    ELSE /\ returned' = returned
         /\ pc' = "done"
         /\ exit' = r.outcome

\* One turn of the loop of wait_for_server while the timeout has not passed:
\* a healthy port ends the wait, otherwise the loop sleeps. A poll that gets
\* no answer may take up to the timeout of the health request.
WaitForServerPoll ==
    /\ pc = "wait_for_server"
    /\ elapsed < WaitTimeout
    /\ IF is_server_running
       THEN /\ StartServerReturn(after_wait(TRUE, Len(spawned)))
            /\ elapsed' = elapsed
       ELSE /\ \E d \in {0, HealthTimeout} : elapsed' = elapsed + PollSleep + d
            /\ UNCHANGED <<returned, pc, exit>>
    /\ spawned' = spawned
    /\ StartUnchanged

\* The timeout has passed: wait_for_server returns False and start_server
\* takes its warning branch.
WaitForServerTimeout ==
    /\ pc = "wait_for_server"
    /\ elapsed >= WaitTimeout
    /\ StartServerReturn(after_wait(FALSE, Len(spawned)))
    /\ UNCHANGED <<spawned, elapsed>>
    /\ StartUnchanged

\* start_server is called once more on the same port.
StartServerAgain ==
    /\ pc = "create_client"
    /\ Len(returned) < MaxCalls
    /\ pc' = "start_server"
    /\ UNCHANGED <<spawned, elapsed, returned, exit>>
    /\ StartUnchanged

\* A booting helper binds the port, if nothing else holds it.
HelperBinds ==
    /\ \E i \in 1..Len(spawned) :
          /\ spawned[i] = "booting"
          /\ is_port_free
          /\ spawned' = [spawned EXCEPT ![i] = "listening"]
    /\ UNCHANGED <<pc, elapsed, returned, exit>>
    /\ StartUnchanged

\* A listening helper starts answering /health.
HelperAnswers ==
    /\ \E i \in 1..Len(spawned) :
          /\ spawned[i] = "listening"
          /\ spawned' = [spawned EXCEPT ![i] = "healthy"]
    /\ UNCHANGED <<pc, elapsed, returned, exit>>
    /\ StartUnchanged

\* A helper process exits on its own account.
HelperDies ==
    /\ \E i \in 1..Len(spawned) :
          /\ spawned[i] # "dead"
          /\ spawned' = [spawned EXCEPT ![i] = "dead"]
    /\ UNCHANGED <<pc, elapsed, returned, exit>>
    /\ StartUnchanged

StartNext ==
    \/ StartServerCheck
    \/ WaitForServerPoll
    \/ WaitForServerTimeout
    \/ StartServerAgain
    \/ HelperBinds
    \/ HelperAnswers
    \/ HelperDies

StartSpec == StartInit /\ [][StartNext]_vars

\* A step start_server takes at its entry, in a call that follows another.
LaterCallStep == pc = "start_server" /\ pc' # pc /\ returned # <<>>

\* C11 (as claimed): two successive calls of start_server on one port spawn
\* at most one helper in total, and the second call returns no handle.
C11_AtMostOneSpawn ==
    Len(returned) >= 2 => Len(spawned) <= 1 /\ returned[2] = NoHandle

\* C11 (amended): a call of start_server that follows another one and finds
\* the port healthy spawns nothing and returns no handle; no call spawns more
\* than one helper.
C11_HealthyPortNotRespawned ==
    [][/\ Len(spawned') <= Len(spawned) + 1
       /\ (LaterCallStep /\ is_server_running)
            => (spawned' = spawned /\ returned' = Append(returned, NoHandle))]_vars

C11_Witness ==
    /\ Len(returned) = 2
    /\ returned = <<1, NoHandle>>
    /\ spawned = <<"healthy">>

\* C12: when the spawned helper has not become healthy within the health-poll
\* timeout, the polling stops, start_server returns the handle of the helper
\* without raising, and run goes on to create the client.
C12_UnhealthyHelperDoesNotAbort ==
    [][pc = "wait_for_server" =>
         /\ elapsed' < WaitTimeout + PollSleep + HealthTimeout
         /\ (elapsed >= WaitTimeout /\ pc' # pc) =>
               /\ pc' = "create_client"
               /\ exit' = "none"
               /\ returned' = Append(returned, Len(spawned))]_vars

C12_Witness ==
    /\ pc = "create_client"
    /\ elapsed >= WaitTimeout
    /\ returned # <<>>
    /\ spawned # <<>>
    /\ returned[Len(returned)] = Len(spawned)
    /\ spawned[Len(spawned)] # "healthy"

\* ---------------------------------------------------------------------
\* _build_payload
\* ---------------------------------------------------------------------

\* How many of the instance attributes and keyword arguments are not None.
MaxSet == 2

Packages == {"dulayni", "dulayni_client"}

\* optional_fields of the two clients.
OptionalFields(package) ==
    {"agent_type", "model", "system_prompt", "thread_id", "memory_db",
     "pg_uri", "mcp_servers"}
        \cup IF package = "dulayni" THEN {"dulayni_api_key"}
             ELSE {"startup_timeout", "parallel_tool_calls"}

Contents == {"hello", ""}

build_payload_truthy(fields, self, content, kwargs) ==
    LET value(f) == IF Truthy(kwargs[f]) THEN kwargs[f] ELSE self[f]
        present == {f \in fields : value(f) # None}
    IN  [k \in {"role", "content"} \cup present |->
            IF k = "role" THEN "user"
            ELSE IF k = "content" THEN content
            ELSE value(k)]

\* _build_payload: kwargs.get(field), then getattr(self, field) when that is
\* None, and the key only when the value is not None. A keyword argument that
\* is absent reads as None.
build_payload(fields, self, content, kwargs) ==
    LET value(f) == IF kwargs[f] = None THEN self[f] ELSE kwargs[f]
        present == {f \in fields : value(f) # None}
    IN  [k \in {"role", "content"} \cup present |->
            IF k = "role" THEN "user"
            ELSE IF k = "content" THEN content
            ELSE value(k)]

\* A client and a call of _build_payload in which at most MaxSet attributes
\* and keyword arguments are set, each to a falsy value ("") or a truthy one.
PayloadInputs ==
    UNION {
        LET slots == {"self", "kwargs"} \X OptionalFields(package)
        IN  UNION {
              { [package |-> package,
                 content |-> content,
                 self |-> [f \in OptionalFields(package) |->
                             IF <<"self", f>> \in set
                             THEN IF choice[<<"self", f>>] THEN "default" ELSE ""
                             ELSE None],
                 kwargs |-> [f \in OptionalFields(package) |->
                             IF <<"kwargs", f>> \in set
                             THEN IF choice[<<"kwargs", f>>] THEN "override" ELSE ""
                             ELSE None]]
                : choice \in [set -> BOOLEAN], content \in Contents }
              : set \in {t \in SUBSET slots : Cardinality(t) <= MaxSet} }
        : package \in Packages }

PayloadInit ==
    /\ client = DulayniClient(None, None)
    /\ last = NoCall
    /\ input \in PayloadInputs
    /\ output = <<>>
    /\ spawned = <<>>
    /\ elapsed = 0
    /\ returned = <<>>
    /\ AtRest

BuildPayload ==
    /\ last.op = "none"
    /\ output' = build_payload(OptionalFields(input.package), input.self,
                               input.content, input.kwargs)
    /\ last' = [NoCall EXCEPT !.op = "_build_payload"]
    /\ UNCHANGED <<client, input, spawned, elapsed, returned, sessionFile, now,
                   runVars>>

PayloadNext == BuildPayload

PayloadSpec == PayloadInit /\ [][PayloadNext]_vars

\* C14: the payload holds role "user" and the given content; each optional
\* field holds the keyword argument when one is given, else the instance
\* attribute when that is set, and is absent when neither is; no key holds
\* None and there is no other key.
C14_PayloadFields ==
    last.op = "_build_payload" =>
        /\ output["role"] = "user"
        /\ output["content"] = input.content
        /\ DOMAIN output \subseteq
               {"role", "content"} \cup OptionalFields(input.package)
        /\ \A f \in OptionalFields(input.package) :
              IF input.kwargs[f] # None
              THEN f \in DOMAIN output /\ output[f] = input.kwargs[f]
              ELSE IF input.self[f] # None
              THEN f \in DOMAIN output /\ output[f] = input.self[f]
              ELSE f \notin DOMAIN output
        /\ \A k \in DOMAIN output : output[k] # None

C14_Witness ==
    /\ last.op = "_build_payload"
    /\ input.kwargs["model"] = ""
    /\ input.self["model"] = "default"
    /\ output["model"] = ""
    /\ "thread_id" \notin DOMAIN output

\* ---------------------------------------------------------------------
\* The session store on its own (auth/session.py, cli.py 322-353)
\* ---------------------------------------------------------------------

\* The latest moment of a validity check; expiry times go one further.
MaxTime == 2

\* The parent directory of the session file does not exist.
NoDirectory == [kind |-> "nodir"]

\* The file holds JSON text that is not an object: null, [], "", 0 or false
\* (falsy once loaded), or a non-empty array or string, a number, true.
NonObject(truthy) == [kind |-> "json_value", truthy |-> truthy]

\* A JSON object with a token whose expiry_time is null or a string.
BadExpiry(tag) ==
    [kind |-> "json",
     members |-> [phone_number |-> <<"string", "P">>,
                  auth_token |-> <<"string", "t1">>,
                  expiry_time |-> IF tag = "null" THEN <<"null">>
                                  ELSE <<"string", "soon">>]]

\* A dict with any of the three keys of a session record.
SessionDict(phone, token, dated, expiry) ==
    [k \in (IF phone = "missing" THEN {} ELSE {"phone_number"})
              \cup (IF token = "missing" THEN {} ELSE {"auth_token"})
              \cup (IF dated THEN {"expiry_time"} ELSE {}) |->
        IF k = "phone_number" THEN phone
        ELSE IF k = "auth_token" THEN token
        ELSE expiry]

SessionDicts ==
    {SessionDict(phone, token, dated, expiry) :
        phone \in {"missing", "P"}, token \in {"missing", None, "", "t1"},
        dated \in BOOLEAN, expiry \in 0..(MaxTime + 1)}

\* What the session file can hold before the program touches it.
StoredFiles ==
    {Absent, NoDirectory, Garbage, NonObject(TRUE), NonObject(FALSE),
     BadExpiry("null"), BadExpiry("string")}
        \cup {json_dump(SessionDict(phone, "t1", TRUE, expiry)) :
                 phone \in Phones, expiry \in {1, MaxTime}}

\* The exception is_session_valid raises on what load_session returned for
\* the file: .get on a truthy value that is not a dict, or the comparison of
\* time.time() with an expiry_time that is not a number.
is_session_valid_raises(file) ==
    IF file.kind = "json_value"
    THEN IF file.truthy THEN "AttributeError" ELSE "none"
    ELSE IF file.kind # "json" THEN "none"
    ELSE IF DOMAIN file.members = {} THEN "none"
    ELSE IF ~Truthy(Get(json_load(file), "auth_token", None)) THEN "none"
    ELSE IF "expiry_time" \in DOMAIN file.members
            /\ file.members["expiry_time"][1] # "number"
    THEN "TypeError"
    ELSE "none"

\* The start of the phone flow: load the session, validate it, compare the
\* phone number; "reuse" takes the stored token, "fresh" requests a code.
resume_session(file, phone, t) ==
    IF is_session_valid_raises(file) # "none"
    THEN is_session_valid_raises(file)
    ELSE IF UseStoredSession(load_session(file), phone, t) THEN "reuse"
    ELSE "fresh"

SessionInit ==
    /\ client = DulayniClient(None, None)
    /\ last = NoCall
    /\ input \in {[session_data |-> d, now |-> t] :
                     d \in SessionDicts \cup {NoSession}, t \in 0..MaxTime}
    /\ output = FALSE
    /\ spawned = <<>>
    /\ elapsed = 0
    /\ returned = <<>>
    /\ sessionFile \in StoredFiles
    /\ RunAtRest

SessionUnchanged ==
    UNCHANGED <<client, input, spawned, elapsed, returned, now, runVars>>

\* is_session_valid(session_data) is evaluated at time input.now.
IsSessionValid ==
    /\ output' = is_session_valid(input.session_data, input.now)
    /\ last' = [NoCall EXCEPT !.op = "is_session_valid"]
    /\ sessionFile' = sessionFile
    /\ SessionUnchanged

\* save_session(session_data) with a dict.
SaveSession ==
    /\ input.session_data # NoSession
    /\ sessionFile' = save_session(input.session_data)
    /\ last' = [NoCall EXCEPT !.op = "save_session"]
    /\ output' = output
    /\ SessionUnchanged

\* load_session()
LoadSession ==
    /\ output' = load_session(sessionFile)
    /\ last' = [NoCall EXCEPT !.op = "load_session"]
    /\ sessionFile' = sessionFile
    /\ SessionUnchanged

\* The phone flow starts for some phone number at time input.now.
ResumeSession ==
    /\ \E phone \in Phones :
          output' = [phone |-> phone,
                     outcome |-> resume_session(sessionFile, phone, input.now)]
    /\ last' = [NoCall EXCEPT !.op = "resume_session"]
    /\ sessionFile' = sessionFile
    /\ SessionUnchanged

\* An unlink without the test for existence: a missing file raises.
clear_session_unchecked(file) ==
    IF file \in {Absent, NoDirectory}
    THEN [file |-> file, outcome |-> "FileNotFoundError", unlinked |-> FALSE]
    ELSE [file |-> Absent, outcome |-> "return", unlinked |-> TRUE]

\* clear_session(): the file is unlinked when it exists, whatever it holds.
clear_session(file) ==
    IF file \in {Absent, NoDirectory}
    THEN [file |-> file, outcome |-> "return", unlinked |-> FALSE]
    ELSE [file |-> Absent, outcome |-> "return", unlinked |-> TRUE]

\* clear_session(), also as logout calls it.
ClearSession ==
    /\ sessionFile' = clear_session(sessionFile).file
    /\ last' = [NoCall EXCEPT !.op = "clear_session",
                              !.outcome = clear_session(sessionFile).outcome,
                              !.resp = IF clear_session(sessionFile).unlinked
                                       THEN "unlinked" ELSE "no_file"]
    /\ output' = output
    /\ SessionUnchanged

SessionNext ==
    \/ IsSessionValid
    \/ SaveSession
    \/ LoadSession
    \/ ResumeSession
    \/ ClearSession

SessionSpec == SessionInit /\ [][SessionNext]_vars

\* C18: is_session_valid(S) at time now is true exactly when S is a record
\* with a non-empty auth_token and an expiry_time later than now; no record,
\* no token, an empty token, no expiry_time, or an expiry_time not later than
\* now all give false.
C18_ValidIffTokenAndUnexpired ==
    last.op = "is_session_valid" =>
        (output <=>
            /\ input.session_data # NoSession
            /\ "auth_token" \in DOMAIN input.session_data
            /\ input.session_data["auth_token"] \notin {None, ""}
            /\ "expiry_time" \in DOMAIN input.session_data
            /\ input.now < input.session_data["expiry_time"])

C18_Witness ==
    /\ last.op = "is_session_valid"
    /\ output = TRUE
    /\ input.now = MaxTime
    /\ "phone_number" \notin DOMAIN input.session_data

C20_MalformedMeansNoSession ==
    last.op = "resume_session" =>
        /\ output.outcome \in {"reuse", "fresh"}
        /\ sessionFile.kind # "json" => output.outcome = "fresh"

\* ---------------------------------------------------------------------
\* save_session step by step, beside a load_session of another invocation
\* ---------------------------------------------------------------------

\* The file just opened with mode "w": it exists and is empty.
Truncated == [kind |-> "empty"]

\* The file while json.dump writes into it: the text of the first members,
\* the object not closed yet.
Prefix(session_data, keys) ==
    [kind |-> "json_prefix",
     members |-> [k \in keys |-> JsonValue(k, session_data[k])]]

\* The file holds anything but an object with an ill-typed expiry_time.
TornInit ==
    /\ client = DulayniClient(None, None)
    /\ last = NoCall
    /\ sessionFile \in StoredFiles \ {BadExpiry("null"), BadExpiry("string")}
    /\ \E d \in SessionDicts :
          input = [session_data |-> d, previous |-> sessionFile]
    /\ output = NoSession
    /\ spawned = <<>>
    /\ elapsed = 0
    /\ returned = <<>>
    /\ RunAtRest

TornUnchanged ==
    UNCHANGED <<client, last, input, output, spawned, elapsed, returned, now,
                session0, cfg, proc, helper, foreign, net, stops, terminates,
                exit, queries>>

\* save_session: the directory is made and the file opened, which empties it.
SaveOpens ==
    /\ pc = "idle"
    /\ sessionFile' = Truncated
    /\ pc' = "writing"
    /\ TornUnchanged

\* json.dump has written, and the file object flushed, part of the text.
SaveWrites ==
    /\ pc = "writing"
    /\ \E keys \in SUBSET DOMAIN input.session_data :
          /\ keys # DOMAIN input.session_data
          /\ sessionFile' = Prefix(input.session_data, keys)
    /\ pc' = "writing"
    /\ TornUnchanged

\* The with block ends: the whole text is in the file.
SaveCloses ==
    /\ pc = "writing"
    /\ sessionFile' = save_session(input.session_data)
    /\ pc' = "saved"
    /\ TornUnchanged

TornNext ==
    \/ SaveOpens
    \/ SaveWrites
    \/ SaveCloses
    \/ LoadSession

TornSpec == TornInit /\ [][TornNext]_vars

\* C21 (as claimed): a load_session that runs beside a save_session(X) of
\* another invocation returns the complete previous record (None when there
\* was none) or the complete record X.
C21_LoadSeesOldOrNew ==
    [][last'.op = "load_session" =>
          output' \in {load_session(input.previous), input.session_data}]_vars

\* ---------------------------------------------------------------------
\* merge_config_with_args
\* ---------------------------------------------------------------------

\* Parameters read as cli_args.get(name) or <config section>.get(name).
MergedParams(package) ==
    {"model", "agent_type", "system_prompt", "memory_db", "pg_uri",
     "thread_id", "api_url"}
        \cup IF package = "dulayni" THEN {"dulayni_api_key"}
             ELSE {"startup_timeout", "parallel_tool_calls", "openai_api_key"}

\* Parameters for which os.environ is consulted after the other two.
EnvParams(package) ==
    IF package = "dulayni" THEN {} ELSE {"openai_api_key"}

\* Parameters taken from the config file alone, and from the command line
\* alone.
ConfigOnlyParams(package) ==
    {"mcp_servers"} \cup IF package = "dulayni" THEN {"phone_number"} ELSE {}

CliOnlyParams == {"query", "print_mode"}

\* The places a parameter can be set in.
Slots(package) ==
    ({"cli"} \X (MergedParams(package) \cup CliOnlyParams))
        \cup ({"config"} \X (MergedParams(package) \cup ConfigOnlyParams(package)))
        \cup ({"env"} \X EnvParams(package))

\* Python's a or b.
PyOr(a, b) == IF Truthy(a) THEN a ELSE b

\* merge_config_with_args(config, **cli_args); the sections of the config
\* file are flattened, a name that is not set reads as None.
merge_config_with_args(package, config, cli_args, env) ==
    LET value(k) ==
            IF k \in EnvParams(package)
            THEN PyOr(PyOr(cli_args[k], config[k]), env[k])
            ELSE IF k \in MergedParams(package) THEN PyOr(cli_args[k], config[k])
            ELSE IF k \in CliOnlyParams THEN cli_args[k]
            ELSE config[k]
        kept(k) ==
            IF k = "mcp_servers" THEN Truthy(config[k]) ELSE value(k) # None
        names == MergedParams(package) \cup CliOnlyParams
                    \cup ConfigOnlyParams(package)
    IN  [k \in {n \in names : kept(n)} |-> value(k)]

\* A setting of at most MaxSet slots, each to a falsy value ("") or to a
\* truthy one that names its origin.
MergeInputs ==
    UNION {
        UNION {
          { LET at(src, k) ==
                    IF \E i \in 1..n : chosen[i] = <<src, k>>
                    THEN IF truthy[CHOOSE i \in 1..n : chosen[i] = <<src, k>>]
                         THEN src ELSE ""
                    ELSE None
                names == MergedParams(package) \cup CliOnlyParams
                            \cup ConfigOnlyParams(package)
            IN  [package |-> package,
                 cli_args |-> [k \in names |-> at("cli", k)],
                 config |-> [k \in names |-> at("config", k)],
                 env |-> [k \in names |-> at("env", k)]]
            : chosen \in [1..n -> Slots(package)], truthy \in [1..n -> BOOLEAN] }
          : n \in 0..MaxSet }
        : package \in Packages }

MergeInit ==
    /\ client = DulayniClient(None, None)
    /\ last = NoCall
    /\ input \in MergeInputs
    /\ output = <<>>
    /\ spawned = <<>>
    /\ elapsed = 0
    /\ returned = <<>>
    /\ AtRest

MergeConfigWithArgs ==
    /\ last.op = "none"
    /\ output' = merge_config_with_args(input.package, input.config,
                                        input.cli_args, input.env)
    /\ last' = [NoCall EXCEPT !.op = "merge_config_with_args"]
    /\ UNCHANGED <<client, input, spawned, elapsed, returned, sessionFile, now,
                   runVars>>

MergeNext == MergeConfigWithArgs

MergeSpec == MergeInit /\ [][MergeNext]_vars

\* C23 (as claimed): for every parameter read from both the command line and
\* the config file, a value given on the command line is the merged value;
\* without one the config value is; without either the environment value is,
\* where the environment is consulted; and a parameter set nowhere is absent.
C23_Precedence ==
    last.op = "merge_config_with_args" =>
        \A k \in MergedParams(input.package) :
            LET env == IF k \in EnvParams(input.package)
                       THEN input.env[k] ELSE None
            IN  IF input.cli_args[k] # None
                THEN k \in DOMAIN output /\ output[k] = input.cli_args[k]
                ELSE IF input.config[k] # None
                THEN k \in DOMAIN output /\ output[k] = input.config[k]
                ELSE IF env # None
                THEN k \in DOMAIN output /\ output[k] = env
                ELSE k \notin DOMAIN output

\* C24: in the interactive loop a query that raises (a client error of any
\* class, or any other exception) leaves run in the loop, ready for the next
\* input; the loop is left only by the input q or by an interrupt.
C24_LoopSurvivesErrors ==
    [][pc = "loop" =>
        /\ (queries' # queries /\ last'.op = "query" /\ last'.outcome # "return")
              => pc' = "loop"
        /\ pc' # "loop" => pc' = "finally" /\ exit' \in {"normal", "interrupt"}]_vars

\* A query of the loop has raised an exception that is no client error, and
\* run is still in the loop.
C24_Witness ==
    /\ pc = "loop"
    /\ queries > 0
    /\ last.op = "query"
    /\ last.outcome \notin ClientErrors \cup {"return"}

\* C25: clear_session() returns without an exception whether or not a record
\* exists; right after it no session file exists, load_session() returns
\* None, and the phone flow of any phone number at any time requests a fresh
\* code from /auth instead of reusing a token.
C25_ClearLeavesNoSession ==
    last.op = "clear_session" =>
        /\ last.outcome = "return"
        /\ sessionFile \in {Absent, NoDirectory}
        /\ load_session(sessionFile) = NoSession
        /\ \A phone \in Phones, t \in 0..MaxTime :
              resume_session(sessionFile, phone, t) = "fresh"

\* clear_session() has removed a session file.
C25_Witness ==
    /\ last.op = "clear_session"
    /\ last.resp = "unlinked"
    /\ sessionFile = Absent

\* C26 (as claimed): every request a query operation sends to /run_agent or
\* /run_agent_stream carries a credential: a non-empty bearer token in the
\* Authorization header or a non-empty dulayni_api_key in the payload.
C26_QueryCarriesCredential ==
    last.op \in QueryOps \cup {"query_stream"} =>
        \A i \in 1..Len(last.requests) :
            last.requests[i].url \in {"/run_agent", "/run_agent_stream"} =>
                \/ Truthy(last.requests[i].bearer)
                \/ Truthy(last.requests[i].dulayni_api_key)

\* ---------------------------------------------------------------------
\* The tunnel sidecar (frpc) step of run
\* ---------------------------------------------------------------------

\* What run finds when it reaches the step: the credentials and the
\* --skip-frpc flag; whether docker is on the PATH; whether docker ps lists a
\* container whose name contains frpc; whether .frpc can be written; how
\* docker build and docker run end (exit status 0, another status, or
\* subprocess.run raising).
FrpcInputs ==
    [using_dulayni : BOOLEAN, skip_frpc : BOOLEAN, phone_number : {None, "P"},
     docker : BOOLEAN, running : BOOLEAN, writable : BOOLEAN,
     build : {"ok", "failed", "raises"}, launch : {"ok", "failed", "raises"}]

\* A check that does not look at the output of docker ps.
frpc_check_ignores_running(c) ==
    IF ~c.using_dulayni /\ ~c.skip_frpc /\ Truthy(c.phone_number) /\ c.docker
    THEN "setup"
    ELSE "skip"

\* run, lines 745-757: the step is entered for the phone method without
\* --skip-frpc when docker is available, and setup_frpc is called when docker
\* ps does not list frpc.
frpc_check(c) ==
    IF ~c.using_dulayni /\ ~c.skip_frpc /\ Truthy(c.phone_number) /\ c.docker
    THEN IF c.running THEN "running" ELSE "setup"
    ELSE "skip"

FrpcInit ==
    /\ client = DulayniClient(None, None)
    /\ last = NoCall
    /\ input \in FrpcInputs
    /\ output = [commands |-> <<>>, container |-> IF input.running THEN "old" ELSE "none"]
    /\ spawned = <<>>
    /\ elapsed = 0
    /\ returned = <<>>
    /\ sessionFile = Absent
    /\ session0 = Absent
    /\ now = 0
    /\ cfg = [phone_number |-> None, dulayni_api_key |-> None, query |-> None,
              print_mode |-> "rich"]
    /\ pc = "frpc_check"
    /\ proc = None
    /\ helper = "none"
    /\ foreign = "none"
    /\ net = <<>>
    /\ stops = 0
    /\ terminates = 0
    /\ exit = "none"
    /\ queries = 0

FrpcUnchanged ==
    UNCHANGED <<client, last, input, spawned, elapsed, returned, sessionFile,
                session0, now, cfg, proc, helper, foreign, net, stops,
                terminates, queries>>

Ran(command) == [output EXCEPT !.commands = Append(@, command)]

\* run, lines 745-753: the guard and docker ps.
FrpcCheck ==
    /\ pc = "frpc_check"
    /\ output' = IF frpc_check(input) = "skip" THEN output ELSE Ran("docker ps")
    /\ pc' = IF frpc_check(input) = "setup" THEN "setup_frpc" ELSE "start_server"
    /\ exit' = exit
    /\ FrpcUnchanged

\* setup_frpc, lines 382-397: the directory and the three files are written,
\* outside any try; an OSError propagates out of run.
SetupFrpcGenerate ==
    /\ pc = "setup_frpc"
    /\ IF input.writable
       THEN /\ output' = Ran("write .frpc")
            /\ pc' = "docker_build"
            /\ exit' = exit
       ELSE /\ output' = output
            /\ pc' = "done"
            /\ exit' = "exception"
    /\ FrpcUnchanged

\* setup_frpc, lines 402-413: docker build; a non-zero status returns False,
\* an exception is caught and returns False.
SetupFrpcBuild ==
    /\ pc = "docker_build"
    /\ output' = Ran("docker build")
    /\ pc' = IF input.build = "ok" THEN "docker_rm" ELSE "start_server"
    /\ exit' = exit
    /\ FrpcUnchanged

\* setup_frpc, lines 415-420: docker rm -f frpc, its status ignored.
SetupFrpcRemove ==
    /\ pc = "docker_rm"
    /\ output' = [Ran("docker rm") EXCEPT !.container = "none"]
    /\ pc' = "docker_run"
    /\ exit' = exit
    /\ FrpcUnchanged

\* setup_frpc, lines 422-439: docker run; True on status 0, False otherwise.
SetupFrpcRun ==
    /\ pc = "docker_run"
    /\ output' = [Ran("docker run") EXCEPT
                    !.container = IF input.launch = "ok" THEN "new" ELSE @]
    /\ pc' = "start_server"
    /\ exit' = exit
    /\ FrpcUnchanged

\* run, line 760: the helper is started next, then the client authenticates
\* and queries.
FrpcProceeds ==
    /\ pc = "start_server"
    /\ pc' = "create_client"
    /\ UNCHANGED <<output, exit>>
    /\ FrpcUnchanged

FrpcNext ==
    \/ FrpcCheck
    \/ SetupFrpcGenerate
    \/ SetupFrpcBuild
    \/ SetupFrpcRemove
    \/ SetupFrpcRun
    \/ FrpcProceeds

FrpcSpec == FrpcInit /\ [][FrpcNext]_vars

\* C27: when the sidecar container is already running, run writes no
\* configuration and builds, removes and launches nothing, and the container
\* stays the one that ran; when docker is absent, or the build or the launch
\* of the container fails, run goes on to start the helper, from where it
\* authenticates and queries.
C27_SidecarIdempotentOptional ==
    [][/\ input.running =>
            /\ \A i \in 1..Len(output'.commands) : output'.commands[i] = "docker ps"
            /\ output'.container = "old"
            /\ pc' \in {"start_server", "create_client"}
       /\ (pc = "frpc_check" /\ ~input.docker) =>
            pc' = "start_server" /\ output' = output
       /\ (pc = "docker_build" /\ input.build # "ok") => pc' = "start_server"
       /\ (pc = "docker_run" /\ input.launch # "ok") => pc' = "start_server"]_vars

\* docker ps listed a running frpc container, and run went on to the helper
\* having run no other command.
C27_Witness ==
    /\ pc = "create_client"
    /\ input.running
    /\ output.commands = <<"docker ps">>
    /\ output.container = "old"

\* C28 (as claimed): a call of set_phone_number or request_verification_code
\* that replaces the client's phone number by another leaves the client unauthenticated,
\* without a bearer token, and without the verification session id it held
\* for the previous phone number.
C28_PhoneChangeResets ==
    [][(/\ last'.op \in {"set_phone_number", "request_verification_code"}
        /\ Truthy(client.phone_number)
        /\ client'.phone_number # client.phone_number)
       => /\ ~client'.is_authenticated
          /\ client'.auth_token = None
          /\ last'.op = "set_phone_number"
                => client'.verification_session_id = None]_vars

\* C29 (as claimed): an invocation that found the helper of another
\* invocation healthy on the port, and so spawned nothing, sends no shutdown
\* request to the port, and that helper keeps running whatever the
\* invocation does.
C29_StopsOnlyOwnHelper ==
    [][(proc = None /\ foreign = "healthy")
          => (stops' = stops /\ foreign' = "healthy")]_vars

\* C30 (as claimed): when run has passed authentication by the phone method,
\* the client is authenticated with a non-empty bearer token, and the session
\* record a fresh flow has just written holds that token and is valid.
C30_SuccessMeansToken ==
    (pc = "dispatch" /\ ~using_dulayni) =>
        /\ client.is_authenticated
        /\ Truthy(client.auth_token)
        /\ last.op = "verify_code" =>
              /\ Get(load_session(sessionFile), "auth_token", None) = client.auth_token
              /\ is_session_valid(load_session(sessionFile), now)

====
